---- MODULE Spec2Model ----
(***************************************************************************)
(* terminal_pomodoro.py: one session of FloatingTimerWindow (Spec,         *)
(* SpecAnyTotal), and the main menu over the history file with its four    *)
(* history views (SpecStore).                                              *)
(*                                                                         *)
(* Three threads of control take part in a session:                        *)
(*   - the clock thread, running FloatingTimerWindow.count (started at     *)
(*     line 150-151), which also executes finish_timer (called at 231);    *)
(*   - the UI thread, running root.mainloop() (line 432): it runs the      *)
(*     button commands toggle_pause / finalize_action, the WM_DELETE       *)
(*     protocol handler on_closing and the callbacks scheduled with        *)
(*     root.after, one at a time and each to completion;                   *)
(*   - the caller (run_timer / run_stopwatch), which is the UI thread      *)
(*     again once mainloop has returned, and which decides on save_session.*)
(* Every action below is one step of one of them. Consecutive statements   *)
(* of one thread are one step where no step of the other thread can tell   *)
(* the difference: a step reads or writes the fields the two threads share *)
(* (running, paused, after_ids, Tk's queue of callbacks, the window) at    *)
(* one place of the source, or at places the other thread's steps commute  *)
(* with. The sleeps are the time a thread spends before its next step; no  *)
(* duration is modelled, so every interleaving of the steps is a behaviour.*)
(***************************************************************************)
EXTENDS Integers, Sequences, FiniteSets

(* ---------------------------------------------------------------------- *)
(* Bounds of the model                                                    *)
(* ---------------------------------------------------------------------- *)

\* Largest countdown length, in minutes, a session is constructed with.
MaxMinutes == 1

\* A stopwatch has no end of its own: the clock stops ticking here.
MaxElapsed == 61

\* Number of callbacks scheduled with root.after that can be live at the same
\* time: with all of them live, update_display waits for the UI thread to run
\* one and the pause button is not clicked.
MaxAfter == 2

\* Number of days after FirstToday the program is run on.
MaxDay == 1

\* Number of calls of save_session in a run of the main menu.
MaxCalls == 2

(* ---------------------------------------------------------------------- *)
(* Program constants                                                      *)
(* ---------------------------------------------------------------------- *)

\* total_seconds = total_minutes * 60 ; minutes = elapsed_seconds // 60
SecondsPerMinute == 60

\* hours = seconds // 3600
SecondsPerHour == 3600

\* the progress bar has 10 segments
Segments == 10

\* saved_minutes = None
NoMinutes == -1

\* show_daily_history: for i in range(29, -1, -1)
HistoryDays == 30

\* show_weekly_history: for i in range(29, -1, -1)
HistoryWeeks == 30

\* show_monthly_history: for i in range(11, -1, -1)
HistoryMonths == 12

\* show_monthly_history: timedelta(days=i * 30)
MonthStep == 30

VARIABLES
    \* fields of FloatingTimerWindow (lines 128-135)
    is_timer, total_seconds, elapsed_seconds, running, paused, cancelled,
    saved_minutes, after_ids,
    \* the argument `minutes` of run_timer (None for run_stopwatch)
    total_minutes,
    \* toolkit state: the root window, Tk's queue of scheduled callbacks, the
    \* widgets, the completion dialog and whether the bell has rung
    window, pending, progress_label, time_label, pause_button, dialog, bell,
    \* position of the clock thread, the UI thread and the caller
    pc_clock, pc_ui, pc_main,
    \* the local after_id of update_display (clock) and of pulse_button (UI)
    clock_after_id, ui_after_id,
    \* the branch count took at line 226 in the iteration under way
    seen_paused,
    \* count has called finish_timer (line 231): the outcome Finished(Natural)
    natural,
    \* pomodoro_history.json: whether it is there and well-formed ("missing",
    \* "ok", "malformed"), and the JSON array it holds
    file, history,
    \* datetime.now().date()
    today,
    \* what the history view shown last has computed and printed
    view,
    \* the calls of save_session so far: arguments and what became of them
    calls

engine == <<is_timer, total_seconds, elapsed_seconds, running, paused, cancelled,
            saved_minutes, total_minutes>>
toolkit == <<window, pending, after_ids, progress_label, time_label,
             pause_button, dialog, bell>>
widgets == <<window, progress_label, time_label, pause_button, dialog, bell>>
threads == <<pc_clock, pc_ui, pc_main, clock_after_id, ui_after_id, seen_paused,
             natural>>
store == <<file, history, today, view, calls>>
vars == <<engine, toolkit, threads, store>>

(* ---------------------------------------------------------------------- *)
(* Pure functions                                                         *)
(* ---------------------------------------------------------------------- *)

Min(a, b) == IF a <= b THEN a ELSE b

Abs(n) == IF n < 0 THEN -n ELSE n

\* format_time: HH:MM:SS, kept as the three numbers it prints
format_time(seconds) ==
    <<seconds \div SecondsPerHour,
      (seconds % SecondsPerHour) \div SecondsPerMinute,
      seconds % SecondsPerMinute>>

\* The progress rounded to the nearest segment instead of truncated.
Progress_Rounded(elapsed, total) ==
    Min((2 * elapsed * Segments + total) \div (2 * total), Segments)

\* update_display, lines 262-263: progress = min(int(elapsed/total * 10), 10).
\* The float quotient times 10, truncated, equals the integer floor: where
\* 10*elapsed/total is a whole number k, elapsed/total is the double nearest
\* k/10 and its product with 10 is not below k; elsewhere it is 1/total away
\* from a whole number, far more than the rounding error of a double.
Progress(elapsed, total) == Min((elapsed * Segments) \div total, Segments)

\* update_display, line 264: "#" * progress + "." * (10 - progress)
Bars(progress) ==
    [i \in 1..progress |-> "#"] \o [i \in 1..(Segments - progress) |-> "."]

\* The countdown is taken to be over one second early.
CountdownExhausted_OneEarly(total, elapsed) == total - elapsed <= 1

\* The countdown is taken to be over one second late.
CountdownExhausted_OneLate(total, elapsed) == total - elapsed < 0

\* count, lines 229-230: remaining = total - elapsed; remaining <= 0
CountdownExhausted(total, elapsed) == total - elapsed <= 0

\* The value update_display is called with (lines 235, 239, 247, 249)
DisplaySeconds == IF is_timer THEN total_seconds - elapsed_seconds ELSE elapsed_seconds

(* ---------------------------------------------------------------------- *)
(* Dates (datetime.date, timedelta, strftime, strptime)                   *)
(* ---------------------------------------------------------------------- *)

\* A date object is the number of days from 1 January of EpochYear, so that
\* date - timedelta(days=n) is a subtraction; the text "%Y-%m-%d" of a date is
\* the triple <<year, month, day>>.
EpochYear == 2025

\* date(EpochYear, 1, 1).weekday(), Monday being 0: a Wednesday
EpochWeekday == 2

\* the years the dates of the model fall in
Years == EpochYear..(EpochYear + 2)

IsLeap(y) == (y % 4 = 0 /\ y % 100 # 0) \/ y % 400 = 0

DaysInYear(y) == IF IsLeap(y) THEN 366 ELSE 365

DaysInMonth(y, m) ==
    IF m = 2 THEN (IF IsLeap(y) THEN 29 ELSE 28)
    ELSE IF m \in {4, 6, 9, 11} THEN 30 ELSE 31

RECURSIVE DaysBeforeYear(_)
DaysBeforeYear(y) ==
    IF y <= EpochYear THEN 0 ELSE DaysBeforeYear(y - 1) + DaysInYear(y - 1)

\* the days of a common year before the first of each month
DaysBeforeMonthCommon == <<0, 31, 59, 90, 120, 151, 181, 212, 243, 273, 304, 334>>

DaysBeforeMonth(y, m) ==
    DaysBeforeMonthCommon[m] + (IF m > 2 /\ IsLeap(y) THEN 1 ELSE 0)

\* date(y, m, d)
Date(y, m, d) == DaysBeforeYear(y) + DaysBeforeMonth(y, m) + (d - 1)

\* date.year
YearOf(date) ==
    CHOOSE y \in Years :
        DaysBeforeYear(y) <= date /\ date < DaysBeforeYear(y) + DaysInYear(y)

\* the month of year y that day number rest of the year, from 0, falls in
MonthIn(y, rest) ==
    CHOOSE m \in 1..12 :
        /\ DaysBeforeMonth(y, m) <= rest
        /\ rest < DaysBeforeMonth(y, m) + DaysInMonth(y, m)

\* date.month
MonthOf(date) == LET y == YearOf(date) IN MonthIn(y, date - DaysBeforeYear(y))

\* <<date.year, date.month, date.day>>
Civil(date) ==
    LET y == YearOf(date)
        rest == date - DaysBeforeYear(y)
        m == MonthIn(y, rest)
    IN  <<y, m, rest - DaysBeforeMonth(y, m) + 1>>

\* date.day
DayOf(date) == Civil(date)[3]

\* date.strftime("%Y-%m-%d")
strftime(date) == Civil(date)

\* datetime.strptime(text, "%Y-%m-%d").date()
strptime(text) == Date(text[1], text[2], text[3])

\* date.weekday(): Monday is 0
weekday(date) == (date + EpochWeekday) % 7

\* date.replace(day=1)
replace_day_1(date) == date - (DayOf(date) - 1)

\* the first of the days the program is run on: 28 February 2026
FirstToday == Date(EpochYear + 1, 2, 28)

(* ---------------------------------------------------------------------- *)
(* The history file (load_history, save_session)                          *)
(* ---------------------------------------------------------------------- *)

\* the objectives of the main menu (objective_map, line 810), two of the three
Objectives == {"Estudar", "Outros"}

SessionTypes == {"timer", "cronometro"}

\* what becomes of the write of lines 56-61: the list is written; open()
\* raises and the file is left as it was; open() has truncated the file and
\* the write raises before the closing bracket is out
WriteOutcomes == {"written", "not_opened", "truncated"}

\* json.dump of the list of sessions: an array of objects, each the sequence
\* of its key/value pairs. datetime_start, the fifth key (line 52), is the
\* date again with the time of day and is read by no function; it is left out.
json_dump(list) ==
    [i \in 1..Len(list) |->
        << <<"date", list[i].date>>, <<"objective", list[i].objective>>,
           <<"type", list[i].type>>, <<"minutes", list[i].minutes>> >>]

\* object[key] of a parsed JSON object
Member(object, key) ==
    object[CHOOSE i \in 1..Len(object) : object[i][1] = key][2]

\* The values of an object are taken by position, in the order date, type,
\* objective, minutes.
json_load_ByPosition(text) ==
    [i \in 1..Len(text) |->
        [date |-> text[i][1][2], objective |-> text[i][3][2],
         type |-> text[i][2][2], minutes |-> text[i][4][2]]]

\* json.load: the list of dicts the array stands for
json_load(text) ==
    [i \in 1..Len(text) |->
        [date |-> Member(text[i], "date"),
         objective |-> Member(text[i], "objective"),
         type |-> Member(text[i], "type"),
         minutes |-> Member(text[i], "minutes")]]

\* the branch load_history takes: the file does not exist (line 33), json.load
\* raises JSONDecodeError (38), open or read raises another exception (42),
\* or the list is returned (37)
Found(read_ok) ==
    IF file = "missing" THEN "missing"
    ELSE IF ~read_ok THEN "unreadable"
    ELSE IF file = "malformed" THEN "malformed"
    ELSE "ok"

\* A file that cannot be read is answered with the list it holds.
load_history_Stale(read_ok) ==
    IF Found(read_ok) \in {"ok", "unreadable"} /\ file = "ok"
    THEN json_load(history) ELSE <<>>

\* load_history, lines 31-44
load_history(read_ok) ==
    IF Found(read_ok) = "ok" THEN json_load(history) ELSE <<>>

\* the dict save_session builds (lines 51-52)
Session(objective, session_type, minutes) ==
    [date |-> strftime(today), objective |-> objective,
     type |-> session_type, minutes |-> minutes]

\* save_session, lines 47-61: the history is loaded, the session appended and
\* the whole list written back; an exception of the write is printed
save_session(objective, session_type, minutes, read_ok, write) ==
    LET loaded == load_history(read_ok)
        session == Session(objective, session_type, minutes)
    IN  /\ calls' = Append(calls,
                [objective |-> objective, type |-> session_type,
                 minutes |-> minutes, found |-> Found(read_ok),
                 loaded |-> Len(loaded), write |-> write])
        /\ CASE write = "written" ->
                    file' = "ok" /\ history' = json_dump(Append(loaded, session))
             [] write = "not_opened" ->
                    UNCHANGED <<file, history>>
             [] write = "truncated" ->
                    file' = "malformed" /\ history' = <<>>

(* ---------------------------------------------------------------------- *)
(* The history views (lines 645-781)                                      *)
(* ---------------------------------------------------------------------- *)

\* total += session["minutes"] over the sessions at the positions idx
RECURSIVE SumMinutes(_, _)
SumMinutes(list, idx) ==
    IF idx = {} THEN 0
    ELSE LET i == CHOOSE j \in idx : TRUE
         IN  list[i].minutes + SumMinutes(list, idx \ {i})

\* aggregate_by_date, lines 645-651
aggregate_by_date(list, date_str) ==
    SumMinutes(list, {i \in 1..Len(list) : list[i].date = date_str})

\* show_daily_history, lines 672-675: one row for each of the last 30 days,
\* the oldest first
DailyRows(list) ==
    [k \in 1..HistoryDays |->
        LET date_str == strftime(today - (HistoryDays - k))
        IN  [label |-> <<date_str>>,
             minutes |-> aggregate_by_date(list, date_str)]]

\* the sessions show_weekly_history adds up in the row of week i (702-705)
InWeek(list, i) ==
    LET week_start == today - (7 * i + weekday(today))
        week_end == week_start + 6
    IN  {j \in 1..Len(list) :
            /\ week_start <= strptime(list[j].date)
            /\ strptime(list[j].date) <= week_end}

\* show_weekly_history, lines 698-705
WeeklyRows(list) ==
    [k \in 1..HistoryWeeks |->
        LET i == HistoryWeeks - k
            week_start == today - (7 * i + weekday(today))
        IN  [label |-> <<strftime(week_start), strftime(week_start + 6)>>,
             minutes |-> SumMinutes(list, InWeek(list, i))]]

\* show_monthly_history, line 733: the date whose year and month row i shows
month_date(i) == replace_day_1(today) - i * MonthStep

\* the sessions show_monthly_history adds up in the row of month i (738-741)
InMonth(list, i) ==
    LET shown == Civil(month_date(i))
    IN  {j \in 1..Len(list) :
            LET session_date == Civil(strptime(list[j].date))
            IN  session_date[1] = shown[1] /\ session_date[2] = shown[2]}

\* show_monthly_history, lines 732-741
MonthlyRows(list) ==
    [k \in 1..HistoryMonths |->
        LET i == HistoryMonths - k
            shown == Civil(month_date(i))
        IN  [label |-> <<shown[1], shown[2]>>,
             minutes |-> SumMinutes(list, InMonth(list, i))]]

\* show_specific_date_history, lines 763-770: the input DD/MM/YYYY, here
\* <<day, month, year>>, is parsed and printed again as %Y-%m-%d
SpecificRows(list, date_input) ==
    LET date_obj == Date(date_input[3], date_input[2], date_input[1])
        date_str == strftime(date_obj)
    IN  <<[label |-> <<date_str>>,
           minutes |-> aggregate_by_date(list, date_str)]>>

\* the rows a view prints: those with minutes > 0 (lines 677, 707, 743, 776)
Printed(rows) == SelectSeq(rows, LAMBDA row : row.minutes > 0)

(* ---------------------------------------------------------------------- *)
(* Tk's scheduled callbacks                                               *)
(* ---------------------------------------------------------------------- *)

AfterPool == 1..MaxAfter

PendingIds == {pending[i].id : i \in 1..Len(pending)}

\* ids that are live: of a scheduled callback, held in after_ids, or held in
\* a local after_id that has not been appended yet. Tk never reuses an id;
\* after_cancel on the id of a callback that has run does nothing, so such an
\* id is dropped from after_ids and the model can hand it out again.
UsedIds == PendingIds \cup after_ids \cup {clock_after_id, ui_after_id}

FreeIds == AfterPool \ UsedIds

\* root.after returns an id no live callback has
FreshId == CHOOSE i \in FreeIds : \A j \in FreeIds : i <= j

NoId == 0

RemoveAt(s, i) == [j \in 1..(Len(s) - 1) |-> IF j < i THEN s[j] ELSE s[j + 1]]

\* root.after_cancel(id) for every id of ids
CancelIds(q, ids) == SelectSeq(q, LAMBDA cb : cb.id \notin ids)

\* after(0, ...) callbacks run in the order they were scheduled; the
\* after(150, ...) of pulse_button runs whenever its delay is over
Runnable(i) ==
    \/ pending[i].kind = "pulse"
    \/ \A j \in 1..(i - 1) : pending[j].kind = "pulse"

(* ---------------------------------------------------------------------- *)
(* Construction: FloatingTimerWindow.__init__ (lines 109-154)             *)
(* ---------------------------------------------------------------------- *)

BlueButton == [text |-> "pause", color |-> "blue"]

NoButton == [text |-> "", color |-> ""]

\* __init__, lines 109-154: the state once FloatingTimerWindow(is_timer,
\* total_minutes) is constructed and its clock thread is started
FloatingTimerWindow(timer, minutes) ==
    /\ is_timer = timer
    /\ total_minutes = minutes
    /\ total_seconds = IF is_timer THEN total_minutes * SecondsPerMinute ELSE 0
    /\ elapsed_seconds = 0
    /\ running = TRUE
    /\ paused = FALSE
    /\ cancelled = FALSE
    /\ saved_minutes = NoMinutes
    /\ after_ids = {}
    /\ window = TRUE
    /\ pending = <<>>
    /\ progress_label = <<>>
    /\ time_label = format_time(0)
    /\ pause_button = BlueButton
    /\ dialog = "none"
    /\ bell = FALSE
    /\ pc_clock = "loop"
    /\ pc_ui = "idle"
    /\ pc_main = "mainloop"
    /\ clock_after_id = NoId
    /\ ui_after_id = NoId
    /\ seen_paused = FALSE
    /\ natural = FALSE

\* no history view has been shown
NoView == [kind |-> "none", found |-> "none", loaded |-> <<>>, rows |-> <<>>]

\* the program is started for the first time: there is no history file
NoHistoryFile ==
    /\ file = "missing"
    /\ history = <<>>
    /\ today = FirstToday
    /\ view = NoView
    /\ calls = <<>>

\* run_stopwatch constructs the window with is_timer = False (line 568),
\* run_timer with the minutes of select_time (line 594), which are a preset
\* or a custom number of at least 1 (lines 519-535)
Init ==
    \E timer \in BOOLEAN :
        \E minutes \in (IF timer THEN 1..MaxMinutes ELSE {0}) :
            FloatingTimerWindow(timer, minutes) /\ NoHistoryFile

\* the constructor as the class offers it: total_minutes defaults to 0
\* (line 109), so that a countdown of no minutes can be constructed
InitAnyTotal ==
    \E timer \in BOOLEAN :
        \E minutes \in (IF timer THEN 0..MaxMinutes ELSE {0}) :
            FloatingTimerWindow(timer, minutes) /\ NoHistoryFile

(* ---------------------------------------------------------------------- *)
(* Steps shared by the handlers                                           *)
(* ---------------------------------------------------------------------- *)

\* cancel_all_after, lines 335-339: after_cancel on every id of after_ids
CancelLoop == pending' = CancelIds(pending, after_ids)

\* cancel_all_after, lines 340-348: after_ids.clear() (the unbinds of the drag
\* handlers follow; they touch no state of the model)
CancelClear == after_ids' = {}

\* destroy_window, lines 352-380: root.destroy() takes the window and every
\* callback still scheduled with it. Lines 381-386 then configure and schedule
\* on the destroyed root, which raises inside their try and changes nothing.
\* The widgets go with the root and show nothing any more, and no id of
\* after_ids names a callback any more.
DestroyWindow ==
    IF window
    THEN /\ window' = FALSE
         /\ pending' = <<>>
         /\ after_ids' = {}
         /\ progress_label' = <<>>
         /\ time_label' = <<>>
         /\ pause_button' = NoButton
    ELSE UNCHANGED <<window, pending, after_ids, progress_label, time_label,
                     pause_button>>

\* root.after(delay, callback): schedules and returns the id
Schedule(kind, val) ==
    [id |-> FreshId, kind |-> kind, val |-> val]

(* ---------------------------------------------------------------------- *)
(* The clock thread: count (lines 220-250)                                *)
(* ---------------------------------------------------------------------- *)

\* lines 223-224: running is false, leave the loop
Count_Break ==
    /\ pc_clock = "loop"
    /\ ~running
    /\ pc_clock' = "done"
    /\ UNCHANGED <<engine, toolkit, pc_ui, pc_main, clock_after_id, ui_after_id,
                   seen_paused, natural, store>>

\* finish_timer is entered in either mode once the loop finds the window
\* running, not paused and total_seconds - elapsed_seconds <= 0.
Count_Finish_AnyMode ==
    /\ pc_clock = "loop"
    /\ running /\ ~paused
    /\ CountdownExhausted(total_seconds, elapsed_seconds)
    /\ pc_clock' = "ft_enter"
    /\ UNCHANGED <<engine, toolkit, pc_ui, pc_main, clock_after_id, ui_after_id,
                   seen_paused, natural, store>>

\* lines 223-230: running, not paused, countdown exhausted: count is about
\* to call finish_timer. The flags were read here; the call comes after, and
\* a handler of the UI thread can run in between.
Count_Finish ==
    /\ pc_clock = "loop"
    /\ running /\ ~paused /\ is_timer
    /\ CountdownExhausted(total_seconds, elapsed_seconds)
    /\ pc_clock' = "ft_enter"
    /\ UNCHANGED <<engine, toolkit, pc_ui, pc_main, clock_after_id, ui_after_id,
                   seen_paused, natural, store>>

\* lines 231 and 277: finish_timer is called and sets running to false
FinishTimer_Enter ==
    /\ pc_clock = "ft_enter"
    /\ natural' = TRUE
    /\ running' = FALSE
    /\ pc_clock' = "ft_cancel"
    /\ UNCHANGED <<is_timer, total_seconds, elapsed_seconds, paused, cancelled,
                   saved_minutes, total_minutes, toolkit, pc_ui, pc_main,
                   clock_after_id, ui_after_id, seen_paused, store>>

\* lines 226-239 and 244-249: the iteration goes on to update_display, in the
\* running branch or in the paused branch
Count_Iterate ==
    /\ pc_clock = "loop"
    /\ running
    /\ is_timer \/ elapsed_seconds < MaxElapsed
    /\ paused \/ ~is_timer \/ ~CountdownExhausted(total_seconds, elapsed_seconds)
    /\ seen_paused' = paused
    /\ pc_clock' = IF is_timer THEN "ud_progress" ELSE "ud_time"
    /\ UNCHANGED <<engine, toolkit, pc_ui, pc_main, clock_after_id, ui_after_id,
                   natural, store>>

\* update_display, lines 260-267: the progress bar is computed and its redraw
\* is handed to the UI thread with root.after(0, ...)
UpdateDisplay_Progress ==
    /\ pc_clock = "ud_progress"
    /\ window
    /\ total_seconds # 0
    /\ FreeIds # {}
    /\ pending' = Append(pending,
            Schedule("progress", Bars(Progress(elapsed_seconds, total_seconds))))
    /\ clock_after_id' = FreshId
    /\ pc_clock' = "ud_progress_append"
    /\ UNCHANGED <<engine, window, after_ids, progress_label, time_label,
                   pause_button, dialog, bell, pc_ui, pc_main, ui_after_id,
                   seen_paused, natural, store>>

\* update_display, line 262, with total_seconds = 0: the division raises
\* ZeroDivisionError, which nothing in update_display or count catches, and
\* the clock thread ends with it
UpdateDisplay_ZeroDivision ==
    /\ pc_clock = "ud_progress"
    /\ window
    /\ total_seconds = 0
    /\ pc_clock' = "zero_division"
    /\ UNCHANGED <<engine, toolkit, pc_ui, pc_main, clock_after_id, ui_after_id,
                   seen_paused, natural, store>>

\* update_display, lines 258 and 271-272: the same for the time label
UpdateDisplay_Time ==
    /\ pc_clock = "ud_time"
    /\ window
    /\ FreeIds # {}
    /\ pending' = Append(pending,
            Schedule("time", format_time(Abs(DisplaySeconds))))
    /\ clock_after_id' = FreshId
    /\ pc_clock' = "ud_time_append"
    /\ UNCHANGED <<engine, window, after_ids, progress_label, time_label,
                   pause_button, dialog, bell, pc_ui, pc_main, ui_after_id,
                   seen_paused, natural, store>>

\* update_display, lines 268 and 273: self.after_ids.append(after_id). An id
\* whose callback has run by now is of no use to after_cancel and is not kept.
UpdateDisplay_Append ==
    /\ pc_clock \in {"ud_progress_append", "ud_time_append"}
    /\ after_ids' = IF clock_after_id \in PendingIds
                     THEN after_ids \cup {clock_after_id} ELSE after_ids
    /\ clock_after_id' = NoId
    /\ pc_clock' = IF pc_clock = "ud_progress_append" THEN "ud_time" ELSE "sleep"
    /\ UNCHANGED <<engine, window, pending, progress_label, time_label,
                   pause_button, dialog, bell, pc_ui, pc_main, ui_after_id,
                   seen_paused, natural, store>>

\* update_display on a destroyed root (lines 255, 266, 271): winfo_exists
\* answers false and update_display returns, or Tk raises TclError in the
\* clock thread, which ends it
UpdateDisplay_Gone ==
    /\ pc_clock \in {"ud_progress", "ud_time"}
    /\ ~window
    /\ \E raised \in BOOLEAN : pc_clock' = IF raised THEN "done" ELSE "sleep"
    /\ UNCHANGED <<engine, toolkit, pc_ui, pc_main, clock_after_id, ui_after_id,
                   seen_paused, natural, store>>

\* lines 241-242: time.sleep(1); self.elapsed_seconds += 1
Count_Tick ==
    /\ pc_clock = "sleep"
    /\ ~seen_paused
    /\ elapsed_seconds' = elapsed_seconds + 1
    /\ seen_paused' = FALSE
    /\ pc_clock' = "loop"
    /\ UNCHANGED <<is_timer, total_seconds, running, paused, cancelled,
                   saved_minutes, total_minutes, toolkit, pc_ui, pc_main,
                   clock_after_id, ui_after_id, natural, store>>

\* line 250: time.sleep(0.2) of the paused branch
Count_PausedSleep ==
    /\ pc_clock = "sleep"
    /\ seen_paused
    /\ seen_paused' = FALSE
    /\ pc_clock' = "loop"
    /\ UNCHANGED <<engine, toolkit, pc_ui, pc_main, clock_after_id, ui_after_id,
                   natural, store>>

(* ---------------------------------------------------------------------- *)
(* The clock thread: finish_timer (lines 275-295)                         *)
(* ---------------------------------------------------------------------- *)

\* line 278, cancel_all_after: the loop of after_cancel
FinishTimer_Cancel ==
    /\ pc_clock = "ft_cancel"
    /\ CancelLoop
    /\ pc_clock' = "ft_clear"
    /\ UNCHANGED <<engine, window, after_ids, progress_label, time_label,
                   pause_button, dialog, bell, pc_ui, pc_main, clock_after_id,
                   ui_after_id, seen_paused, natural, store>>

\* line 278, cancel_all_after: after_ids.clear()
FinishTimer_Clear ==
    /\ pc_clock = "ft_clear"
    /\ CancelClear
    /\ pc_clock' = "ft_display"
    /\ UNCHANGED <<engine, window, pending, progress_label, time_label,
                   pause_button, dialog, bell, pc_ui, pc_main, clock_after_id,
                   ui_after_id, seen_paused, natural, store>>

\* lines 279-289: after time.sleep(0.1) the final display is configured and
\* the bell rung; on a destroyed root the try swallows the TclError
FinishTimer_Display ==
    /\ pc_clock = "ft_display"
    /\ IF window
       THEN /\ progress_label' = IF is_timer THEN Bars(Segments) ELSE progress_label
            /\ time_label' = format_time(0)
            /\ bell' = TRUE
       ELSE UNCHANGED <<progress_label, time_label, bell>>
    /\ pc_clock' = "ft_dialog"
    /\ UNCHANGED <<engine, window, pending, after_ids, pause_button, dialog,
                   pc_ui, pc_main, clock_after_id, ui_after_id, seen_paused,
                   natural, store>>

\* line 292: messagebox.showinfo opens the completion dialog and blocks
FinishTimer_Dialog ==
    /\ pc_clock = "ft_dialog"
    /\ dialog' = "open"
    /\ pc_clock' = "ft_wait"
    /\ UNCHANGED <<engine, window, pending, after_ids, progress_label,
                   time_label, pause_button, bell, pc_ui, pc_main,
                   clock_after_id, ui_after_id, seen_paused, natural, store>>

\* line 292 on a destroyed root: whether Tk opens the dialog all the same or
\* raises TclError is left open; the exception is caught nowhere and ends
\* the clock thread
FinishTimer_DialogFails ==
    /\ pc_clock = "ft_dialog"
    /\ ~window
    /\ pc_clock' = "done"
    /\ UNCHANGED <<engine, toolkit, pc_ui, pc_main, clock_after_id, ui_after_id,
                   seen_paused, natural, store>>

\* line 292: the user clicks OK and showinfo returns
Acknowledge ==
    /\ pc_clock = "ft_wait"
    /\ dialog = "open"
    /\ dialog' = "acknowledged"
    /\ pc_clock' = "ft_destroy"
    /\ UNCHANGED <<engine, window, pending, after_ids, progress_label,
                   time_label, pause_button, bell, pc_ui, pc_main,
                   clock_after_id, ui_after_id, seen_paused, natural, store>>

\* line 295: destroy_window, which ends count (the break of line 232); on a
\* destroyed root winfo_exists raises and ends the thread as well
FinishTimer_Destroy ==
    /\ pc_clock = "ft_destroy"
    /\ DestroyWindow
    /\ pc_clock' = "done"
    /\ UNCHANGED <<engine, dialog, bell, pc_ui, pc_main, clock_after_id,
                   ui_after_id, seen_paused, natural, store>>

ClockNext ==
    \/ Count_Break
    \/ Count_Finish
    \/ Count_Iterate
    \/ UpdateDisplay_Progress
    \/ UpdateDisplay_Time
    \/ UpdateDisplay_Append
    \/ UpdateDisplay_Gone
    \/ Count_Tick
    \/ Count_PausedSleep
    \/ FinishTimer_Enter
    \/ FinishTimer_Cancel
    \/ FinishTimer_Clear
    \/ FinishTimer_Display
    \/ FinishTimer_Dialog
    \/ FinishTimer_DialogFails
    \/ FinishTimer_Destroy

(* ---------------------------------------------------------------------- *)
(* The UI thread: callbacks scheduled with root.after                     *)
(* ---------------------------------------------------------------------- *)

\* mainloop dispatches events while the root exists and no handler runs. The
\* handlers test neither running nor the completion dialog, so a click or a
\* close is dispatched during finish_timer as at any other time.
Dispatching ==
    /\ pc_main = "mainloop"
    /\ pc_ui = "idle"
    /\ window

\* restore_button_color, line 327
RestoredColor(p) == IF p THEN "red" ELSE "blue"

\* the lambdas of lines 267, 272 and 317 (restore_button_color, 322-330)
RunCallback ==
    /\ Dispatching
    /\ \E i \in 1..Len(pending) :
        /\ Runnable(i)
        /\ pending' = RemoveAt(pending, i)
        /\ after_ids' = after_ids \ {pending[i].id}
        /\ progress_label' =
              IF pending[i].kind = "progress" THEN pending[i].val ELSE progress_label
        /\ time_label' =
              IF pending[i].kind = "time" THEN pending[i].val ELSE time_label
        /\ pause_button' =
              IF pending[i].kind = "pulse"
              THEN [pause_button EXCEPT !.color = RestoredColor(paused)]
              ELSE pause_button
    /\ UNCHANGED <<engine, window, dialog, bell, threads, store>>

(* ---------------------------------------------------------------------- *)
(* The UI thread: toggle_pause (lines 297-309), pulse_button (311-320)    *)
(* ---------------------------------------------------------------------- *)

\* lines 299-317: paused is flipped and the button redrawn, then pulse_button
\* turns it orange and schedules restore_button_color with root.after(150, ...)
TogglePause ==
    /\ Dispatching
    /\ FreeIds # {}
    /\ paused' = ~paused
    /\ pause_button' = [text |-> IF ~paused THEN "play" ELSE "pause",
                        color |-> "orange"]
    /\ pending' = Append(pending, Schedule("pulse", <<>>))
    /\ ui_after_id' = FreshId
    /\ pc_ui' = "tp_append"
    /\ UNCHANGED <<is_timer, total_seconds, elapsed_seconds, running, cancelled,
                   saved_minutes, total_minutes, window, after_ids,
                   progress_label, time_label, dialog, bell, pc_clock, pc_main,
                   clock_after_id, seen_paused, natural, store>>

\* line 318: self.after_ids.append(after_id)
PulseAppend ==
    /\ pc_ui = "tp_append"
    /\ after_ids' = IF ui_after_id \in PendingIds
                     THEN after_ids \cup {ui_after_id} ELSE after_ids
    /\ ui_after_id' = NoId
    /\ pc_ui' = "idle"
    /\ UNCHANGED <<engine, window, pending, progress_label, time_label,
                   pause_button, dialog, bell, pc_clock, pc_main, clock_after_id,
                   seen_paused, natural, store>>

(* ---------------------------------------------------------------------- *)
(* The UI thread: finalize_action (lines 398-412)                         *)
(* ---------------------------------------------------------------------- *)

\* The cap of line 404 is applied to a stopwatch as well.
FinalizeMinutes_AlwaysCapped(elapsed, timer, total) ==
    Min(elapsed \div SecondsPerMinute, total \div SecondsPerMinute)

\* lines 401-404: elapsed_seconds // 60, capped for a countdown
FinalizeMinutes(elapsed, timer, total) ==
    IF timer THEN Min(elapsed \div SecondsPerMinute, total \div SecondsPerMinute)
             ELSE elapsed \div SecondsPerMinute

\* lines 401-408: saved_minutes is set, running cleared, and cancel_all_after
\* runs its loop of after_cancel
FinalizeAction ==
    /\ Dispatching
    /\ saved_minutes' = FinalizeMinutes(elapsed_seconds, is_timer, total_seconds)
    /\ running' = FALSE
    /\ CancelLoop
    /\ pc_ui' = "fa_clear"
    /\ UNCHANGED <<is_timer, total_seconds, elapsed_seconds, paused, cancelled,
                   total_minutes, window, after_ids, progress_label, time_label,
                   pause_button, dialog, bell, pc_clock, pc_main, clock_after_id,
                   ui_after_id, seen_paused, natural, store>>

\* line 408, cancel_all_after: after_ids.clear(); line 410: cancelled = False
FinalizeAction_Clear ==
    /\ pc_ui = "fa_clear"
    /\ CancelClear
    /\ cancelled' = FALSE
    /\ pc_ui' = "fa_destroy"
    /\ UNCHANGED <<is_timer, total_seconds, elapsed_seconds, running, paused,
                   saved_minutes, total_minutes, window, pending, progress_label,
                   time_label, pause_button, dialog, bell, pc_clock, pc_main,
                   clock_after_id, ui_after_id, seen_paused, natural, store>>

\* lines 411-412: after time.sleep(0.1), destroy_window
FinalizeAction_Destroy ==
    /\ pc_ui = "fa_destroy"
    /\ DestroyWindow
    /\ pc_ui' = "idle"
    /\ UNCHANGED <<engine, dialog, bell, pc_clock, pc_main, clock_after_id,
                   ui_after_id, seen_paused, natural, store>>

(* ---------------------------------------------------------------------- *)
(* The UI thread: on_closing (lines 414-420)                              *)
(* ---------------------------------------------------------------------- *)

\* lines 416-417: running is cleared and cancel_all_after runs its loop of
\* after_cancel
OnClosing ==
    /\ Dispatching
    /\ running' = FALSE
    /\ CancelLoop
    /\ pc_ui' = "oc_clear"
    /\ UNCHANGED <<is_timer, total_seconds, elapsed_seconds, paused, cancelled,
                   saved_minutes, total_minutes, window, after_ids,
                   progress_label, time_label, pause_button, dialog, bell,
                   pc_clock, pc_main, clock_after_id, ui_after_id, seen_paused,
                   natural, store>>

\* line 417, cancel_all_after: after_ids.clear()
OnClosing_Clear ==
    /\ pc_ui = "oc_clear"
    /\ CancelClear
    /\ pc_ui' = "oc_destroy"
    /\ UNCHANGED <<engine, window, pending, progress_label, time_label,
                   pause_button, dialog, bell, pc_clock, pc_main, clock_after_id,
                   ui_after_id, seen_paused, natural, store>>

\* lines 418-420: after time.sleep(0.1), cancelled = True and destroy_window
OnClosing_Destroy ==
    /\ pc_ui = "oc_destroy"
    /\ cancelled' = TRUE
    /\ DestroyWindow
    /\ pc_ui' = "idle"
    /\ UNCHANGED <<is_timer, total_seconds, elapsed_seconds, running, paused,
                   saved_minutes, total_minutes, dialog, bell, pc_clock, pc_main,
                   clock_after_id, ui_after_id, seen_paused, natural, store>>

UINext ==
    \/ RunCallback
    \/ TogglePause
    \/ PulseAppend
    \/ FinalizeAction
    \/ FinalizeAction_Clear
    \/ FinalizeAction_Destroy
    \/ OnClosing
    \/ OnClosing_Clear
    \/ OnClosing_Destroy

(* ---------------------------------------------------------------------- *)
(* The caller: run_timer (587-614), run_stopwatch (561-584)               *)
(* ---------------------------------------------------------------------- *)

\* window.run(), line 432: mainloop returns once the root is destroyed and
\* the handler under way has returned
MainloopReturned ==
    /\ pc_main = "mainloop"
    /\ pc_ui = "idle"
    /\ ~window

\* was_cancelled answers with the flag as constructed (line 133).
was_cancelled_AsConstructed == FALSE

\* was_cancelled, lines 426-428
was_cancelled == cancelled

\* run_timer, lines 600-603: the minutes to record
Recorded == IF saved_minutes # NoMinutes THEN saved_minutes ELSE total_minutes

\* start_session hands the objective picked in the main menu to run_timer /
\* run_stopwatch, which hand it to save_session (lines 580, 610)
SaveAs(session_type, minutes) ==
    \E objective \in Objectives, read_ok \in BOOLEAN, write \in WriteOutcomes :
        save_session(objective, session_type, minutes, read_ok, write)

\* run_timer, lines 596-610
RunTimer_Save ==
    /\ MainloopReturned
    /\ is_timer
    /\ ~was_cancelled
    /\ SaveAs("timer", Recorded)
    /\ pc_main' = "end"
    /\ UNCHANGED <<engine, toolkit, pc_clock, pc_ui, clock_after_id, ui_after_id,
                   seen_paused, natural, today, view>>

\* run_timer, lines 611-612
RunTimer_Discard ==
    /\ MainloopReturned
    /\ is_timer
    /\ was_cancelled
    /\ pc_main' = "end"
    /\ UNCHANGED <<engine, toolkit, pc_clock, pc_ui, clock_after_id, ui_after_id,
                   seen_paused, natural, store>>

\* run_stopwatch, lines 573-580
RunStopwatch_Save ==
    /\ MainloopReturned
    /\ ~is_timer
    /\ saved_minutes # NoMinutes
    /\ SaveAs("cronometro", saved_minutes)
    /\ pc_main' = "end"
    /\ UNCHANGED <<engine, toolkit, pc_clock, pc_ui, clock_after_id, ui_after_id,
                   seen_paused, natural, today, view>>

\* run_stopwatch, lines 581-582
RunStopwatch_Discard ==
    /\ MainloopReturned
    /\ ~is_timer
    /\ saved_minutes = NoMinutes
    /\ pc_main' = "end"
    /\ UNCHANGED <<engine, toolkit, pc_clock, pc_ui, clock_after_id, ui_after_id,
                   seen_paused, natural, store>>

CallerNext ==
    \/ RunTimer_Save
    \/ RunTimer_Discard
    \/ RunStopwatch_Save
    \/ RunStopwatch_Discard

Next == ClockNext \/ Acknowledge \/ UINext \/ CallerNext

Spec == Init /\ [][Next]_vars

\* the steps of the UI thread that no user starts: mainloop dispatching a
\* scheduled callback, and a handler under way going on to its end
UIThreadRuns ==
    \/ RunCallback
    \/ PulseAppend
    \/ FinalizeAction_Clear
    \/ FinalizeAction_Destroy
    \/ OnClosing_Clear
    \/ OnClosing_Destroy

\* both threads are scheduled: the clock thread takes its next step whenever
\* it has one, and so does the UI thread for the steps it owes; the user is
\* under no obligation to click anything
SpecFair == Spec /\ WF_vars(ClockNext) /\ WF_vars(UIThreadRuns)

\* the program with a window constructed for any total_minutes >= 0
NextAnyTotal == Next \/ UpdateDisplay_ZeroDivision

SpecAnyTotal == InitAnyTotal /\ [][NextAnyTotal]_vars

(* ---------------------------------------------------------------------- *)
(* The main menu over the history file (main, lines 808-822)              *)
(* ---------------------------------------------------------------------- *)

\* no window is open: the program is in the loop of main
NoSession ==
    /\ is_timer = FALSE
    /\ total_minutes = 0
    /\ total_seconds = 0
    /\ elapsed_seconds = 0
    /\ running = FALSE
    /\ paused = FALSE
    /\ cancelled = FALSE
    /\ saved_minutes = NoMinutes
    /\ after_ids = {}
    /\ window = FALSE
    /\ pending = <<>>
    /\ progress_label = <<>>
    /\ time_label = <<>>
    /\ pause_button = NoButton
    /\ dialog = "none"
    /\ bell = FALSE
    /\ pc_clock = "done"
    /\ pc_ui = "idle"
    /\ pc_main = "menu"
    /\ clock_after_id = NoId
    /\ ui_after_id = NoId
    /\ seen_paused = FALSE
    /\ natural = FALSE

\* how many days before today a session left by an earlier run was saved
EarlierAges == {75}

\* the lists an earlier run of the program has left in the file: none, or
\* one session of 25 minutes
EarlierLists ==
    {<<>>} \cup {<<[date |-> strftime(today - age), objective |-> "Estudar",
                     type |-> "timer", minutes |-> 25]>> : age \in EarlierAges}

\* the program is started on some day, on a history file that is missing,
\* cut short by a failed write, or holds the list of an earlier run
InitStore ==
    /\ NoSession
    /\ today \in FirstToday..(FirstToday + MaxDay)
    /\ file \in {"missing", "ok", "malformed"}
    /\ history \in (IF file = "ok" THEN {json_dump(list) : list \in EarlierLists}
                                     ELSE {<<>>})
    /\ view = NoView
    /\ calls = <<>>

\* the arguments the sessions of the menu end with: objective, type, minutes
SessionInputs == {<<"Estudar", "timer", 25>>, <<"Outros", "cronometro", 0>>}

\* main, choices 1-3: start_session runs a session that ends in save_session
\* (lines 580, 610)
Menu_Session ==
    /\ pc_main = "menu"
    /\ Len(calls) < MaxCalls
    /\ \E input \in SessionInputs, read_ok \in BOOLEAN, write \in WriteOutcomes :
            save_session(input[1], input[2], input[3], read_ok, write)
    /\ UNCHANGED <<engine, toolkit, threads, today, view>>

\* a history view: load_history, then the rows (lines 663, 689, 723, 758),
\* then the view waits for ENTER
Show(kind, read_ok, rows) ==
    /\ pc_main = "menu"
    /\ pc_main' = "view"
    /\ view' = [kind |-> kind, found |-> Found(read_ok),
                 loaded |-> load_history(read_ok), rows |-> rows]
    /\ UNCHANGED <<engine, toolkit, pc_clock, pc_ui, clock_after_id, ui_after_id,
                   seen_paused, natural, file, history, today, calls>>

\* input("Pressione ENTER para continuar...") returns (lines 684, 718, 753,
\* 781) and main clears the screen (line 812)
Show_Return ==
    /\ pc_main = "view"
    /\ pc_main' = "menu"
    /\ view' = NoView
    /\ UNCHANGED <<engine, toolkit, pc_clock, pc_ui, clock_after_id, ui_after_id,
                   seen_paused, natural, file, history, today, calls>>

\* show_daily_history, lines 661-684
ShowDaily ==
    \E read_ok \in BOOLEAN :
        Show("daily", read_ok, DailyRows(load_history(read_ok)))

\* show_weekly_history, lines 687-718
ShowWeekly ==
    \E read_ok \in BOOLEAN :
        Show("weekly", read_ok, WeeklyRows(load_history(read_ok)))

\* show_monthly_history, lines 721-753
ShowMonthly ==
    \E read_ok \in BOOLEAN :
        Show("monthly", read_ok, MonthlyRows(load_history(read_ok)))

\* the date the user asks for: today, as DD/MM/YYYY
DateInputs == {<<DayOf(today), MonthOf(today), YearOf(today)>>}

\* show_specific_date_history, lines 756-781
ShowSpecificDate ==
    \E read_ok \in BOOLEAN, date_input \in DateInputs :
        Show("date", read_ok,
             SpecificRows(load_history(read_ok), date_input))

NextStore ==
    \/ Menu_Session
    \/ ShowDaily
    \/ ShowWeekly
    \/ ShowMonthly
    \/ ShowSpecificDate
    \/ Show_Return

SpecStore == InitStore /\ [][NextStore]_vars

(* ---------------------------------------------------------------------- *)
(* Properties                                                             *)
(* ---------------------------------------------------------------------- *)

\* run_timer / run_stopwatch have gone past their decision on save_session
SessionEnded == pc_main = "end"

\* the user's finalize has been recorded
Finalized == saved_minutes # NoMinutes

\* the window is destroyed in this step
Disposes == window /\ ~window'

\* C1: while paused stays true, from the step that sets it until the step
\* that clears it, no step changes elapsed_seconds.
C1_PauseFreezesElapsed ==
    [][(paused /\ paused') => elapsed_seconds' = elapsed_seconds]_vars

\* on_closing is under way or has run (it is the only writer of cancelled = True)
OnClosingRan == cancelled \/ pc_ui \in {"oc_clear", "oc_destroy"}

\* C2: once on_closing runs for a session, in either mode and whatever the
\* engine was doing, no session is ever appended to the history.
C2_CancelNeverSaves == OnClosingRan => (history = <<>> /\ calls = <<>>)

\* a countdown that finished naturally, was closed while finish_timer was
\* under way, and whose caller has returned without saving
C2_Witness ==
    /\ SessionEnded
    /\ cancelled
    /\ natural
    /\ history = <<>>

\* type and minutes of the sessions handed to save_session
RecordedSessions ==
    [i \in 1..Len(calls) |-> [type |-> calls[i].type, minutes |-> calls[i].minutes]]

Outcomes ==
    (IF cancelled THEN {"cancelled"} ELSE {})
        \cup (IF Finalized THEN {"finalized"} ELSE {})
        \cup (IF natural THEN {"natural"} ELSE {})

\* C3: when the session has ended, at most one of the outcomes cancelled,
\* finalized by the user, finished naturally is set.
C3_AtMostOneOutcome == SessionEnded => Cardinality(Outcomes) <= 1

\* the engine is in one of the terminal states of the state machine
EngineTerminal == natural \/ Finalized \/ cancelled

\* C4: a step of toggle_pause, finalize_action or on_closing taken when the
\* engine is already terminal leaves running, paused, cancelled and
\* saved_minutes as they are.
C4_TerminalNoOp ==
    [][(EngineTerminal /\ pc_ui' # pc_ui)
          => UNCHANGED <<running, paused, cancelled, saved_minutes>>]_vars

\* C5: a countdown enters finish_timer with elapsed_seconds equal to
\* total_seconds, that is after exactly D ticks, and a countdown that ended
\* that way, neither finalized nor cancelled, is recorded with D // 60 minutes.
C5_NaturalFinishAfterDTicks ==
    /\ natural => elapsed_seconds = total_seconds
    /\ (SessionEnded /\ is_timer /\ ~Finalized /\ ~cancelled)
          => /\ natural
             /\ RecordedSessions
                    = <<[type |-> "timer",
                         minutes |-> total_seconds \div SecondsPerMinute]>>

\* a countdown ran to its end, was acknowledged and has been recorded
C5_Witness ==
    /\ SessionEnded
    /\ natural
    /\ dialog = "acknowledged"
    /\ ~Finalized
    /\ ~cancelled
    /\ elapsed_seconds = total_minutes * SecondsPerMinute
    /\ Len(history) = 1

\* the minutes finalize_action is to yield from the elapsed_seconds it reads
ExpectedMinutes ==
    IF is_timer
    THEN IF elapsed_seconds \div SecondsPerMinute <= total_seconds \div SecondsPerMinute
         THEN elapsed_seconds \div SecondsPerMinute
         ELSE total_seconds \div SecondsPerMinute
    ELSE elapsed_seconds \div SecondsPerMinute

\* C6: the step that sets saved_minutes sets it to elapsed_seconds // 60 as
\* read in that step, capped at total_seconds // 60 for a countdown only; no
\* later step changes it; and the session the caller appends carries it.
C6_FinalizeRecordsElapsedMinutes ==
    /\ [][(saved_minutes' # saved_minutes)
            => (~Finalized /\ saved_minutes' = ExpectedMinutes)]_vars
    /\ []((SessionEnded /\ Finalized)
            => RecordedSessions
                  = <<[type |-> IF is_timer THEN "timer" ELSE "cronometro",
                       minutes |-> saved_minutes]>>)

\* a stopwatch finalized after a full minute, where the cap of a countdown
\* (total_seconds // 60 = 0) would have recorded nothing, and recorded while
\* the clock thread has ticked once more since
C6_Witness ==
    /\ SessionEnded
    /\ ~is_timer
    /\ saved_minutes = 1
    /\ elapsed_seconds = SecondsPerMinute + 1
    /\ file = "ok"
    /\ Len(history) = 1
    /\ json_load(history)[1].type = "cronometro"
    /\ json_load(history)[1].minutes = 1

\* C7: after a natural finish the window is destroyed only once the user
\* has acknowledged the completion dialog.
C7_NoTeardownBeforeAck ==
    [][(Disposes /\ natural) => dialog = "acknowledged"]_vars

\* C8: at the step that destroys the window no scheduled callback is left:
\* each has run or been cancelled.
C8_NoCallbackLeftAtDestroy ==
    [][Disposes => pending = <<>>]_vars

\* C9: the window is disposed only after the clock thread has left count.
C9_ClockStoppedBeforeDispose ==
    [][Disposes => pc_clock = "done"]_vars

\* C10: no step of the clock thread changes the window, a widget, the
\* completion dialog or the bell.
C10_WidgetsOnlyOnUIThread ==
    [][ClockNext => UNCHANGED widgets]_vars

\* the threads that have written self.running since the constructor: the
\* clock thread writes it on entering finish_timer (line 277), the UI thread
\* in finalize_action (line 407) and in on_closing (line 416)
RunningWriters ==
    (IF natural THEN {"clock"} ELSE {})
        \cup (IF Finalized \/ OnClosingRan THEN {"ui"} ELSE {})

\* C11: over a session each shared field has one writer thread: no step of
\* the clock thread writes paused or cancelled, no step of the UI thread
\* writes elapsed_seconds, and running is not written by both threads.
C11_SingleWriterPerField ==
    /\ [][ClockNext => UNCHANGED <<paused, cancelled>>]_vars
    /\ [][UINext => UNCHANGED elapsed_seconds]_vars
    /\ [](Cardinality(RunningWriters) <= 1)

\* C12: a countdown whose total is 0 or less never has its progress computed
\* with total_seconds = 0, on no path of count, the paused branch included,
\* and it never ticks: elapsed_seconds stays 0.
C12_ZeroTotalNeverDivides ==
    (is_timer /\ total_seconds <= 0)
        => (pc_clock # "zero_division" /\ elapsed_seconds = 0)

\* the segments of a bar that are filled, and those that are empty
Filled(bars) == Cardinality({i \in 1..Len(bars) : bars[i] = "#"})

Empty(bars) == Cardinality({i \in 1..Len(bars) : bars[i] = "."})

\* min(10, floor(10 * elapsed / total)): the largest k up to 10 with
\* k * total <= 10 * elapsed
FloorTenths(elapsed, total) ==
    CHOOSE k \in 0..Segments :
        /\ k * total <= Segments * elapsed
        /\ (k = Segments \/ (k + 1) * total > Segments * elapsed)

\* the bar update_display has just handed to root.after
ScheduledBars ==
    {pending[i].val : i \in {j \in 1..Len(pending) :
                                pending[j].id = clock_after_id}}

\* C13: for a countdown with total_seconds > 0, the bar update_display
\* schedules has min(10, floor(10 * elapsed / total)) filled segments, fewer
\* than 10 while elapsed < total, and filled and empty segments number 10.
C13_ProgressSegments ==
    (pc_clock = "ud_progress_append" /\ total_seconds > 0)
        => \A bars \in ScheduledBars :
              /\ Filled(bars) = FloorTenths(elapsed_seconds, total_seconds)
              /\ elapsed_seconds < total_seconds => Filled(bars) < Segments
              /\ Filled(bars) + Empty(bars) = Segments
              /\ Len(bars) = Segments

\* one second before the end of the countdown the bar has 9 filled segments
C13_Witness ==
    /\ pc_clock = "ud_progress_append"
    /\ elapsed_seconds = total_seconds - 1
    /\ \E bars \in ScheduledBars : Filled(bars) = Segments - 1

\* C16: a stopwatch never enters finish_timer, however many ticks it counts,
\* and its running flag is false only once finalize_action or on_closing
\* has set it.
C16_StopwatchEndsByUserOnly ==
    ~is_timer => /\ ~natural
                 /\ pc_clock \notin {"ft_enter", "ft_cancel", "ft_clear",
                                     "ft_display", "ft_dialog", "ft_wait",
                                     "ft_destroy"}
                 /\ ~running => (Finalized \/ OnClosingRan)

\* a stopwatch that has counted as many ticks as the model lets it and is
\* still running
C16_Witness ==
    /\ ~is_timer
    /\ elapsed_seconds = MaxElapsed
    /\ running
    /\ pc_clock = "loop"

\* C19: in a countdown with total_seconds >= 0, elapsed_seconds stays within
\* 0..total_seconds in every reachable state, so a tick is never taken once
\* elapsed_seconds has reached total_seconds and the cap of finalize_action
\* is never below the elapsed minutes.
C19_ElapsedWithinTotal ==
    (is_timer /\ total_seconds >= 0)
        => /\ 0 <= elapsed_seconds
           /\ elapsed_seconds <= total_seconds
           /\ FinalizeMinutes(elapsed_seconds, is_timer, total_seconds)
                  = elapsed_seconds \div SecondsPerMinute

\* a countdown finalized by the user after its last tick, before the clock
\* thread entered finish_timer
C19_Witness ==
    /\ is_timer
    /\ total_seconds > 0
    /\ elapsed_seconds = total_seconds
    /\ Finalized
    /\ ~natural

\* the user's finalize_action or on_closing has set running to false
StoppedByUser == ~running /\ (Finalized \/ OnClosingRan)

\* C20: once finalize_action or on_closing has set running to false, no step
\* changes elapsed_seconds and the clock thread does not enter finish_timer.
C20_NoClockStepAfterStop ==
    [][StoppedByUser => (elapsed_seconds' = elapsed_seconds
                            /\ (natural' => natural))]_vars

\* the list the history file stores: a missing file and a file cut short
\* store none
StoredList == IF file = "ok" THEN json_load(history) ELSE <<>>

IsPrefix(short, long) ==
    /\ Len(short) <= Len(long)
    /\ \A i \in 1..Len(short) : long[i] = short[i]

\* the call of save_session made in this step
LastCall == calls'[Len(calls')]

\* C14: every call of save_session, whatever load_history found, leaves the
\* list stored before as an unchanged prefix of the list stored afterwards,
\* and a call whose write succeeds stores that list followed by exactly the
\* new session.
C14_SaveKeepsStoredSessions ==
    [][(calls' # calls)
          => /\ IsPrefix(StoredList, StoredList')
             /\ LastCall.write = "written"
                    => StoredList' = Append(StoredList,
                            Session(LastCall.objective, LastCall.type,
                                    LastCall.minutes))]_vars

\* every call of save_session so far found the file missing or read its
\* list, and wrote the list back
AllSucceeded ==
    \A i \in 1..Len(calls) :
        calls[i].found \in {"missing", "ok"} /\ calls[i].write = "written"

\* the history was absent or empty before the first call of save_session
StartedEmpty ==
    IF calls = <<>>
    THEN file = "missing" \/ (file = "ok" /\ history = <<>>)
    ELSE calls[1].found \in {"missing", "ok"} /\ calls[1].loaded = 0

\* objective, type and minutes of a list of sessions or of calls
Passed(list) ==
    [i \in 1..Len(list) |-> <<list[i].objective, list[i].type, list[i].minutes>>]

\* C15: from an empty or absent history, N successful calls of save_session
\* followed by load_history give exactly N records, in the order of the
\* calls, each with the objective, type and minutes it was passed.
C15_RoundTrip ==
    (StartedEmpty /\ AllSucceeded)
        => /\ Passed(load_history(TRUE)) = Passed(calls)
           /\ (view.kind # "none" /\ view.found \in {"missing", "ok"})
                  => Passed(view.loaded) = Passed(calls)

\* two sessions with different arguments were saved to an absent history
\* and a view has loaded them
C15_Witness ==
    /\ StartedEmpty
    /\ AllSucceeded
    /\ Len(calls) = 2
    /\ calls[1].found = "missing"
    /\ calls[1].objective # calls[2].objective
    /\ view.kind = "daily"
    /\ Len(view.loaded) = 2

\* C17: when the history file is malformed or cannot be read, load_history
\* returns the empty list and the daily, weekly, monthly and exact-date views
\* print no row.
C17_CorruptFileIsEmptyHistory ==
    /\ load_history(FALSE) = <<>>
    /\ file = "malformed" => load_history(TRUE) = <<>>
    /\ (view.kind # "none" /\ view.found \in {"malformed", "unreadable"})
          => (view.loaded = <<>> /\ Printed(view.rows) = <<>>)

\* the file holds a session but could not be read when the monthly view
\* was shown, and the view printed nothing
C17_Witness ==
    /\ view.kind = "monthly"
    /\ view.found = "unreadable"
    /\ file = "ok"
    /\ Len(history) > 0
    /\ Printed(view.rows) = <<>>

\* C18: whatever the current date, the 12 rows of show_monthly_history are
\* 12 distinct calendar months, and no session is added into more than one
\* of them.
C18_MonthlyRowsDistinct ==
    view.kind = "monthly"
        => /\ Cardinality({view.rows[k].label : k \in 1..Len(view.rows)})
                  = HistoryMonths
           /\ \A j \in 1..Len(view.loaded) :
                  Cardinality({i \in 0..(HistoryMonths - 1) :
                                  j \in InMonth(view.loaded, i)}) <= 1

\* count calls finish_timer in this step
EntersFinishTimer == ~natural /\ natural'

\* C21: at the step where the clock thread calls finish_timer paused is
\* false, and a countdown that is paused with elapsed_seconds = total_seconds
\* does not finish while it stays paused.
C21_FinishOnlyFromRunning ==
    /\ [][EntersFinishTimer => ~paused]_vars
    /\ [][(is_timer /\ paused /\ paused' /\ elapsed_seconds = total_seconds)
             => natural' = natural]_vars

\* C22: once finalize_action or on_closing has set running to false, or the
\* user has acknowledged the completion dialog, the clock thread eventually
\* leaves count.
C22_ClockThreadTerminates ==
    (StoppedByUser \/ dialog = "acknowledged") ~> (pc_clock = "done")

\* C23: when run_timer is over, a countdown of M minutes has handed exactly
\* one session to save_session if cancelled was false when the window loop
\* returned and none otherwise, with saved_minutes when the user finalized
\* and M otherwise; so a countdown that finished naturally and whose dialog
\* was acknowledged is recorded with M minutes.
C23_RunTimerRecordsOnce ==
    (SessionEnded /\ is_timer)
        => /\ Len(calls) = (IF cancelled THEN 0 ELSE 1)
           /\ (~cancelled /\ Finalized)
                  => RecordedSessions
                        = <<[type |-> "timer", minutes |-> saved_minutes]>>
           /\ (~cancelled /\ ~Finalized)
                  => RecordedSessions
                        = <<[type |-> "timer", minutes |-> total_minutes]>>
           /\ (natural /\ dialog = "acknowledged")
                  => RecordedSessions
                        = <<[type |-> "timer", minutes |-> total_minutes]>>

====
